---- MODULE Spec2Model ----
(***************************************************************************)
(* Model of the signal engine of Daily_Signal_Alert_Crypto_v1:             *)
(*   strategy/consolidated_trend.py  ConsolidatedTrendStrategy             *)
(*   utils/indicators.py             Indicators (structure detectors, EMA) *)
(*   main.py                         the polling loop over the symbols     *)
(*                                                                         *)
(* Numbers.  The program computes in floats; the model computes in exact   *)
(* fixed point.  Prices, atr and the derived price levels are integers in  *)
(* one common price unit; every price of the model is a multiple of 5000   *)
(* units and every atr a multiple of 5, so that atr * 0.6 and              *)
(* close * 0.001 * 0.6 are integers.  bb_width_percent is in thousandths   *)
(* (0.003 is 3), the risk percentages in ten-thousandths (0.0015 is 15),   *)
(* a slope in hundredths (0.15 is 15).                                     *)
(*                                                                         *)
(* Data frames.  A pandas DataFrame is [columns, rows]: the set of its     *)
(* column names and the sequence of its rows, a row being a function from  *)
(* the column names to values.  Row i of the model (1-based) is            *)
(* df.iloc[i-1]; df.iloc[-k] is rows[Len(rows) - k + 1].                   *)
(***************************************************************************)
EXTENDS Integers, Sequences, FiniteSets, TLC

(* ------------------------- program constants --------------------------- *)
HTF_EMA_PERIOD == 20
\* RRR_RATIO = 2.0
RRR_RATIO == 2
\* MIN_BB_WIDTH = 0.003, MAX_BB_WIDTH = 0.03, in thousandths
MIN_BB_WIDTH == 3
MAX_BB_WIDTH == 30
MIN_TDI_BUY == 30
MAX_TDI_SELL == 70
\* MIN_TDI_SLOPE = 0.15, in hundredths
MIN_TDI_SLOPE == 15
\* the HARD / SOFT threshold 0.35 of generate_signal, in hundredths
HARD_TDI_SLOPE == 35
DIVERGENCE_LOOKBACK == 6
\* MIN_RISK_PCT = 0.0015, MAX_RISK_PCT = 0.02, in ten-thousandths
MIN_RISK_PCT == 15
MAX_RISK_PCT == 200
\* ATR_SL_MULTIPLIER = 0.6, in tenths
ATR_SL_MULTIPLIER == 6
\* the minimum history of generate_signal: len(df_5m) < 50
MIN_ROWS == 50
\* the default lookback of detect_liquidity_sweep
LOOKBACK == 20

(* ------------------------------ bounds --------------------------------- *)
\* frames handed to generate_signal have 0, MIN_ROWS - 1, or
\* MIN_ROWS .. MIN_ROWS + MaxExtraRows rows
MaxExtraRows == 1
\* higher-timeframe series have 0 .. MaxHtfLen candles
MaxHtfLen == 3
\* series handed to detect_liquidity_sweep alone have up to
\* LOOKBACK + 2 + MaxSweepExtra candles
MaxSweepExtra == 1
\* the clock of the polling loop runs over MaxTicks minutes from 06:59 UTC
MaxTicks == 1
\* Signals one engine emits before the history stops being extended
MaxEmissions == 3

(* ------------------------- arithmetic helpers -------------------------- *)
Abs(x) == IF x < 0 THEN -x ELSE x

Max2(a, b) == IF a >= b THEN a ELSE b

Min2(a, b) == IF a <= b THEN a ELSE b

RECURSIVE Pow(_, _)
Pow(b, e) == IF e = 0 THEN 1 ELSE b * Pow(b, e - 1)

(* --------------------------- data frames ------------------------------- *)
OHLC == {"open", "high", "low", "close"}

Candle(o, h, l, c) == [open |-> o, high |-> h, low |-> l, close |-> c]

FlatCandle(p) == Candle(p, p, p, p)

DataFrame(cols, rs) == [columns |-> cols, rows |-> rs]

\* pd.DataFrame(): what get_historical_klines returns on a failed request
EmptyFrame == DataFrame({}, << >>)

\* df.empty
empty(df) == Len(df.rows) = 0 \/ df.columns = {}

\* len(df)
len(df) == Len(df.rows)

\* df.iloc[-k]
iloc(df, k) == df.rows[Len(df.rows) - k + 1]

\* df.iloc[-k:] as a sequence of rows, oldest first
tail(df, k) == SubSeq(df.rows, Len(df.rows) - k + 1, Len(df.rows))

\* row.get(col, default)
Get(row, col, default) == IF col \in DOMAIN row THEN row[col] ELSE default

\* df[col] = values, in place: the frame with the column added or replaced
SetColumn(df, col, values) ==
    DataFrame(df.columns \cup {col},
              [i \in 1..Len(df.rows) |->
                 [k \in (DOMAIN df.rows[i]) \cup {col} |->
                    IF k = col THEN values[i] ELSE df.rows[i][k]]])

\* series.max() and series.min() of a column over a non-empty slice of rows
ColMax(rs, col) ==
    CHOOSE m \in {rs[i][col] : i \in 1..Len(rs)} :
        \A i \in 1..Len(rs) : rs[i][col] <= m

ColMin(rs, col) ==
    CHOOSE m \in {rs[i][col] : i \in 1..Len(rs)} :
        \A i \in 1..Len(rs) : rs[i][col] >= m

(* ---------------- utils/indicators.py: Indicators ---------------------- *)
\* the column name f"{column}_ema_{period}"; the program forms it only for
\* ("close", HTF_EMA_PERIOD)
ema_col(column, period) ==
    IF column = "close" /\ period = 20 THEN "close_ema_20" ELSE "ema"

\* series.ewm(span=period, adjust=False).mean(), exactly: y[1] = x[1] and
\* y[i] = ((period - 1) * y[i-1] + 2 * x[i]) / (period + 1).  The value at
\* row i is the rational num / den with den = (period + 1)^(i - 1).
RECURSIVE EwmNum(_, _, _)
EwmNum(xs, period, i) ==
    IF i = 1 THEN xs[1]
    ELSE (period - 1) * EwmNum(xs, period, i - 1)
         + 2 * Pow(period + 1, i - 2) * xs[i]

ewm_mean(xs, period) ==
    [i \in 1..Len(xs) |->
        [num |-> EwmNum(xs, period, i), den |-> Pow(period + 1, i - 1)]]

\* Indicators.calculate_ema: writes the column INTO the frame it is given
\* (df[col] = ...; return df), so the value returned is the caller's object
\* after the call.
calculate_ema(df, column, period) ==
    SetColumn(df, ema_col(column, period),
              ewm_mean([i \in 1..Len(df.rows) |-> df.rows[i][column]], period))

\* Indicators.calculate_all_indicators: df = df.copy() first, so the columns
\* are written into the copy and the caller's frame is left alone.  The
\* values of the derived columns (RSI/TDI, Bollinger, ATR arithmetic) are
\* not recomputed by the model: ind gives, per row, the values of the three
\* derived columns generate_signal reads.  calculate_atr yields atr >= 0.
calculate_all_indicators(df, ind) ==
    LET copy == df
        d1 == SetColumn(copy, "tdi_slow_ma", ind.tdi_slow_ma)
        d2 == SetColumn(d1, "bb_width_percent", ind.bb_width_percent)
        d3 == SetColumn(d2, "atr", ind.atr)
    IN  [caller |-> df, returned |-> d3]

\* the empty dict {} that detect_liquidity_sweep returns for "no sweep"
NoSweep == [direction |-> "NONE", sweep_level |-> 0]

SweepEvent(dir, level) == [direction |-> dir, sweep_level |-> level]

\* Indicators.detect_liquidity_sweep.  prev = df.iloc[-lookback:-1] is the
\* rows n-lookback+1 .. n-1 (1-based): lookback - 1 rows, the last excluded.
detect_liquidity_sweep(df, lookback) ==
    LET n == len(df) IN
    IF n < lookback + 2 THEN NoSweep
    ELSE
      LET prev      == SubSeq(df.rows, n - lookback + 1, n - 1)
          last      == iloc(df, 1)
          prev_high == ColMax(prev, "high")
          prev_low  == ColMin(prev, "low")
          body_high == Max2(last.open, last.close)
          body_low  == Min2(last.open, last.close)
      IN  IF last.high > prev_high /\ body_high <= prev_high
            THEN SweepEvent("BUY", last.low)
          ELSE IF last.low < prev_low /\ body_low >= prev_low
            THEN SweepEvent("SELL", last.high)
          ELSE NoSweep

\* Indicators.detect_market_structure_shift
detect_market_structure_shift(df, direction) ==
    IF len(df) < 6 THEN FALSE
    ELSE IF direction = "BUY" THEN iloc(df, 1).high > iloc(df, 3).high
    ELSE iloc(df, 1).low < iloc(df, 3).low

\* Indicators.detect_fvg
detect_fvg(df, direction) ==
    IF len(df) < 3 THEN FALSE
    ELSE LET c1 == iloc(df, 3)
             c3 == iloc(df, 1)
         IN  IF direction = "BUY" THEN c3.low > c1.high
             ELSE c3.high < c1.low

(* ------ strategy/consolidated_trend.py: ConsolidatedTrendStrategy ------ *)
\* __init__: the engine state after construction
NewStrategy == [htf_trend |-> "NEUTRAL", last_signal |-> "NO_TRADE"]

\* set_htf_trend with the empty-series branch returning without the reset
set_htf_trend_keeps_bias(self, htf_df) ==
    IF empty(htf_df) THEN [self |-> self, caller |-> htf_df]
    ELSE
      LET df   == calculate_ema(htf_df, "close", HTF_EMA_PERIOD)
          last == iloc(df, 1)
          ema  == last[ema_col("close", HTF_EMA_PERIOD)]
      IN  [self   |-> [self EXCEPT !.htf_trend =
                          IF last.close * ema.den > ema.num THEN "BULL"
                          ELSE IF last.close * ema.den < ema.num THEN "BEAR"
                          ELSE "NEUTRAL"],
           caller |-> df]

\* set_htf_trend starting the debounce afresh whenever it is called
set_htf_trend_rearms(self, htf_df) ==
    IF empty(htf_df)
      THEN [self   |-> [htf_trend |-> "NEUTRAL", last_signal |-> "NO_TRADE"],
            caller |-> htf_df]
    ELSE
      LET df   == calculate_ema(htf_df, "close", HTF_EMA_PERIOD)
          last == iloc(df, 1)
          ema  == last[ema_col("close", HTF_EMA_PERIOD)]
      IN  [self   |-> [htf_trend   |-> IF last.close * ema.den > ema.num
                                         THEN "BULL"
                                       ELSE IF last.close * ema.den < ema.num
                                         THEN "BEAR"
                                       ELSE "NEUTRAL",
                       last_signal |-> "NO_TRADE"],
           caller |-> df]

\* set_htf_trend(self, htf_df): the engine after the call, and the caller's
\* frame object after the call (calculate_ema writes into it).
set_htf_trend(self, htf_df) ==
    IF empty(htf_df)
      THEN [self   |-> [self EXCEPT !.htf_trend = "NEUTRAL"],
            caller |-> htf_df]
    ELSE
      LET df   == calculate_ema(htf_df, "close", HTF_EMA_PERIOD)
          last == iloc(df, 1)
          ema  == last[ema_col("close", HTF_EMA_PERIOD)]
          \* last["close"] > ema and last["close"] < ema, on num / den
          above == last.close * ema.den > ema.num
          below == last.close * ema.den < ema.num
      IN  [self   |-> [self EXCEPT !.htf_trend =
                          IF above THEN "BULL"
                          ELSE IF below THEN "BEAR"
                          ELSE "NEUTRAL"],
           caller |-> df]

\* analyze_data(self, df): the returned frame and the caller's frame after
\* the call; an empty frame is returned as it is
analyze_data(df, ind) ==
    IF empty(df) THEN [caller |-> df, returned |-> df]
    ELSE calculate_all_indicators(df, ind)

_bb_ok(width) == MIN_BB_WIDTH <= width /\ width <= MAX_BB_WIDTH

_tdi_zone_ok(slow, direction) ==
    IF direction = "BUY" THEN slow >= MIN_TDI_BUY
    ELSE IF direction = "SELL" THEN slow <= MAX_TDI_SELL
    ELSE FALSE

\* np.polyfit(x, y, 1)[0] for x = 0..3: the least-squares slope is
\* (-3*y0 - y1 + y2 + 3*y3) / 10; returned in hundredths.
_tdi_slope(df) ==
    IF len(df) < 4 THEN 0
    ELSE LET y == tail(df, 4)
         IN  10 * (-3 * y[1].tdi_slow_ma - y[2].tdi_slow_ma
                   + y[3].tdi_slow_ma + 3 * y[4].tdi_slow_ma)

\* np.polyfit(range(6), y, 1)[0]: the least-squares slope over x = 0..5 is
\* (-5*y0 - 3*y1 - y2 + y3 + 3*y4 + 5*y5) / 35; only its sign is used, so
\* the operator returns the numerator.
PolyfitSlope6(rs, col) ==
    -5 * rs[1][col] - 3 * rs[2][col] - rs[3][col]
    + rs[4][col] + 3 * rs[5][col] + 5 * rs[6][col]

_tdi_divergence(df, direction) ==
    IF len(df) < DIVERGENCE_LOOKBACK THEN FALSE
    ELSE LET w           == tail(df, DIVERGENCE_LOOKBACK)
             price_slope == PolyfitSlope6(w, "close")
             tdi_slope   == PolyfitSlope6(w, "tdi_slow_ma")
         IN  IF direction = "BUY" /\ price_slope > 0 /\ tdi_slope < 0
               THEN TRUE
             ELSE IF direction = "SELL" /\ price_slope < 0 /\ tdi_slope > 0
               THEN TRUE
             ELSE FALSE

\* _risk_ok with the lower bound of the band left out
_risk_ok_no_floor(entry, sl) ==
    Abs(entry - sl) * 10000 <= entry * MAX_RISK_PCT

\* entry * MIN_RISK_PCT <= risk <= entry * MAX_RISK_PCT, the percentages
\* being in ten-thousandths
_risk_ok(entry, sl) ==
    LET risk == Abs(entry - sl)
    IN  entry * MIN_RISK_PCT <= risk * 10000
        /\ risk * 10000 <= entry * MAX_RISK_PCT

NoTrade(reason) == [signal |-> "NO_TRADE", reason |-> reason]

\* the minimum-history gate one row short
insufficient_data_off_by_one(df) == empty(df) \/ len(df) < MIN_ROWS - 1

\* generate_signal, line 116: the minimum-history gate
insufficient_data(df) == empty(df) \/ len(df) < MIN_ROWS

\* the HTF gate rejecting only the opposite bias, so that NEUTRAL passes
htf_misaligned_opposite_only(direction, htf_trend) ==
    IF direction = "BUY" /\ htf_trend = "BEAR" THEN "HTF not BULL"
    ELSE IF direction = "SELL" /\ htf_trend = "BULL" THEN "HTF not BEAR"
    ELSE ""

\* generate_signal, lines 137-140: the reason of the HTF gate, "" when the
\* candidate direction is aligned with the bias
htf_misaligned(direction, htf_trend) ==
    IF direction = "BUY" /\ htf_trend # "BULL" THEN "HTF not BULL"
    ELSE IF direction = "SELL" /\ htf_trend # "BEAR" THEN "HTF not BEAR"
    ELSE ""

\* price_levels with the target one risk away from the entry, RRR_RATIO
\* left out
price_levels_unit_reward(direction, sweep_level, entry, atr) ==
    LET sl_buffer == (atr * ATR_SL_MULTIPLIER) \div 10
    IN  IF direction = "BUY"
          THEN LET sl == sweep_level - sl_buffer
               IN  [sl |-> sl, tp |-> entry + (entry - sl)]
        ELSE LET sl == sweep_level + sl_buffer
             IN  [sl |-> sl, tp |-> entry - (sl - entry)]

\* price_levels with the BUY target taken on the SELL side of the entry
price_levels_buy_target_below(direction, sweep_level, entry, atr) ==
    LET sl_buffer == (atr * ATR_SL_MULTIPLIER) \div 10
    IN  IF direction = "BUY"
          THEN LET sl == sweep_level - sl_buffer
               IN  [sl |-> sl, tp |-> entry - (entry - sl) * RRR_RATIO]
        ELSE LET sl == sweep_level + sl_buffer
             IN  [sl |-> sl, tp |-> entry - (sl - entry) * RRR_RATIO]

\* generate_signal, lines 163-175: stop and target of a candidate
price_levels(direction, sweep_level, entry, atr) ==
    LET sl_buffer == (atr * ATR_SL_MULTIPLIER) \div 10
    IN  IF direction = "BUY"
          THEN LET sl == sweep_level - sl_buffer
               IN  [sl |-> sl, tp |-> entry + (entry - sl) * RRR_RATIO]
        ELSE LET sl == sweep_level + sl_buffer
             IN  [sl |-> sl, tp |-> entry - (sl - entry) * RRR_RATIO]

\* generate_signal, lines 115-175: every gate before the debounce.  The
\* result is the NoTrade of the first failing gate, or the candidate: the
\* dict generate_signal would return, with its direction in "signal".
candidate(self, df) ==
    IF insufficient_data(df) THEN NoTrade("Insufficient data")
    ELSE
    LET last     == iloc(df, 1)
        tdi_slow == Get(last, "tdi_slow_ma", 0)
        bb_width == Get(last, "bb_width_percent", 0)
        atr      == Get(last, "atr", last.close \div 1000)
    IN
    IF ~ _bb_ok(bb_width) THEN NoTrade("BB width filter")
    ELSE
    LET sweep == detect_liquidity_sweep(df, LOOKBACK) IN
    IF sweep = NoSweep THEN NoTrade("No liquidity sweep")
    ELSE
    LET direction == sweep.direction IN
    IF htf_misaligned(direction, self.htf_trend) # ""
      THEN NoTrade(htf_misaligned(direction, self.htf_trend))
    ELSE IF ~ _tdi_zone_ok(tdi_slow, direction) THEN NoTrade("Weak TDI zone")
    ELSE
    LET tdi_slope == _tdi_slope(df) IN
    IF Abs(tdi_slope) < MIN_TDI_SLOPE THEN NoTrade("Flat TDI")
    ELSE IF _tdi_divergence(df, direction) THEN NoTrade("TDI divergence")
    ELSE IF ~ detect_market_structure_shift(df, direction)
      THEN NoTrade("No MSS")
    ELSE IF ~ detect_fvg(df, direction) THEN NoTrade("No FVG")
    ELSE
    LET entry == last.close
        lv    == price_levels(direction, sweep.sweep_level, entry, atr)
    IN
    IF ~ _risk_ok(entry, lv.sl)
      THEN NoTrade(IF direction = "BUY" THEN "Invalid BUY risk"
                   ELSE "Invalid SELL risk")
    ELSE [signal           |-> direction,
          entry_price      |-> entry,
          stop_loss        |-> lv.sl,
          take_profit      |-> lv.tp,
          signal_strength  |-> IF Abs(tdi_slope) > HARD_TDI_SLOPE
                                 THEN "HARD" ELSE "SOFT",
          risk_factor      |-> RRR_RATIO,
          tdi_slow_ma      |-> tdi_slow,
          tdi_slope        |-> tdi_slope,
          bb_width_percent |-> bb_width,
          atr              |-> atr]

\* the debounce clearing last_signal when it suppresses a duplicate
debounce_resets(self, cand) ==
    IF self.last_signal = cand.signal
      THEN [self |-> [self EXCEPT !.last_signal = "NO_TRADE"],
            ret  |-> NoTrade("Duplicate signal")]
    ELSE [self |-> [self EXCEPT !.last_signal = cand.signal], ret |-> cand]

\* generate_signal, lines 177-193: the debounce and the emission
debounce(self, cand) ==
    IF self.last_signal = cand.signal
      THEN [self |-> self, ret |-> NoTrade("Duplicate signal")]
    ELSE [self |-> [self EXCEPT !.last_signal = cand.signal], ret |-> cand]

\* generate_signal clearing last_signal on every rejected frame
generate_signal_rearms(self, df) ==
    LET cand == candidate(self, df)
    IN  IF cand.signal = "NO_TRADE"
          THEN [self |-> [self EXCEPT !.last_signal = "NO_TRADE"],
                ret  |-> cand]
        ELSE debounce(self, cand)

\* generate_signal with the debounce hoisted to where the direction becomes
\* known, right after the liquidity sweep
generate_signal_debounce_first(self, df) ==
    IF /\ ~ insufficient_data(df)
       /\ _bb_ok(Get(iloc(df, 1), "bb_width_percent", 0))
       /\ detect_liquidity_sweep(df, LOOKBACK).direction = self.last_signal
      THEN [self |-> self, ret |-> NoTrade("Duplicate signal")]
    ELSE LET cand == candidate(self, df)
         IN  IF cand.signal = "NO_TRADE" THEN [self |-> self, ret |-> cand]
             ELSE debounce(self, cand)

\* generate_signal(self, df_5m): the engine after the call and the value
\* returned
generate_signal(self, df) ==
    LET cand == candidate(self, df)
    IN  IF cand.signal = "NO_TRADE" THEN [self |-> self, ret |-> cand]
        ELSE debounce(self, cand)

(* ------------------------------- main.py ------------------------------- *)
\* get_current_session, on the UTC time in minutes since midnight: LONDON
\* is 07:00-16:00, NY is 12:00-21:00, tested in this order
get_current_session(now) ==
    IF 7 * 60 <= now /\ now <= 16 * 60 THEN "LONDON"
    ELSE IF 12 * 60 <= now /\ now <= 21 * 60 THEN "NY"
    ELSE "OTHER"

\* last_setups.get(symbol) of a symbol that has no entry
NoSetup == << >>

\* f"{symbol}_{signal_type}_{session}_{int(time.time() // 60)}"
setup_id(symbol, signal_type, sess, now) == <<symbol, signal_type, sess, now>>

\* one call of a method of the strategy object, as main() makes it
EngineCall(name, symbol, df) == [op |-> name, symbol |-> symbol, df |-> df]

\* main(), lines 204-224, after generate_signal has returned g on the
\* frame df_5m, the calls in made having been made before it in this
\* iteration: a NO_TRADE ends the iteration, a setup id equal to the one
\* stored for the symbol ends it too, otherwise the alert is sent and the
\* id stored.
after_signal(setups, symbol, sess, now, made, df_5m, g) ==
    LET id   == setup_id(symbol, g.ret.signal, sess, now)
        send == g.ret.signal # "NO_TRADE" /\ setups[symbol] # id
    IN  [strategy |-> g.self,
         calls    |-> Append(made, EngineCall("generate_signal", symbol,
                                              df_5m)),
         called   |-> TRUE,
         frame    |-> df_5m,
         decision |-> g.ret,
         sent     |-> send,
         setups   |-> IF send THEN [setups EXCEPT ![symbol] = id]
                      ELSE setups]

\* main(), lines 203-204, the strategy being htf_self and the calls in made
\* having been made: df_5m is what strategy.analyze_data returned, then
\* generate_signal is called on it
after_htf(htf_self, setups, symbol, sess, now, made, df_5m) ==
    after_signal(setups, symbol, sess, now, made, df_5m,
                 generate_signal(htf_self, df_5m))

\* the skip test of main(), line 197
skipped(fetched) ==
    empty(fetched.df_5m) \/ empty(fetched.df_1h) \/ fetched.price = "None"

\* an iteration that has no set_htf_trend call: generate_signal runs on the
\* bias the strategy object was left with
process_symbol_stale_bias(strategy, setups, symbol, sess, now, fetched, ind) ==
    IF skipped(fetched)
      THEN [strategy |-> strategy, calls |-> << >>, called |-> FALSE,
            frame |-> EmptyFrame, decision |-> [signal |-> "None"],
            sent |-> FALSE, setups |-> setups]
    ELSE after_htf(strategy, setups, symbol, sess, now,
                   << EngineCall("analyze_data", symbol, fetched.df_5m) >>,
                   analyze_data(fetched.df_5m, ind).returned)

\* One iteration of the for loop of main() (lines 196-229) for one symbol,
\* on the one strategy object `strategy` shared by all symbols.  fetched is
\* what the client returned: price ("None" on failure), df_5m and df_1h
\* (pd.DataFrame() on failure); ind stands for the indicator arithmetic of
\* analyze_data.  The result: the strategy after the iteration, the engine
\* calls made, the decision, and whether an alert was sent under which id.
process_symbol(strategy, setups, symbol, sess, now, fetched, ind) ==
    IF skipped(fetched)
      THEN [strategy |-> strategy, calls |-> << >>, called |-> FALSE,
            frame |-> EmptyFrame, decision |-> [signal |-> "None"],
            sent |-> FALSE, setups |-> setups]
    ELSE after_htf(set_htf_trend(strategy, fetched.df_1h).self,
                   setups, symbol, sess, now,
                   << EngineCall("set_htf_trend", symbol, fetched.df_1h),
                      EngineCall("analyze_data", symbol, fetched.df_5m) >>,
                   analyze_data(fetched.df_5m, ind).returned)

(* ----------------------------- the inputs ------------------------------ *)
\* Price levels: 500000 units and steps of 5000 (1 %) around it.
Px(k) == 500000 + 5000 * k

\* The candles an exchange can report for the last bar: low <= open, close
\* <= high, over three price levels.
LastCandles ==
    {k \in {Candle(Px(o), Px(h), Px(l), Px(c)) :
               o \in -1..1, h \in -1..1, l \in -1..1, c \in -1..1} :
        /\ k.low <= k.open  /\ k.open <= k.high
        /\ k.low <= k.close /\ k.close <= k.high}

\* a wick on both sides of an unchanged body
BaseLast == Candle(Px(0), Px(1), Px(-1), Px(0))

\* the last six tdi_slow_ma values of a frame, oldest first
TdiUp   == <<30, 32, 34, 36, 38, 40>>
TdiDown == <<60, 58, 56, 54, 52, 50>>
TdiFlat == <<50, 50, 50, 50, 50, 50>>
TdiSoft == <<50, 50, 50, 50, 50, 51>>
TdiLow  == <<10, 12, 14, 16, 18, 20>>
TdiHigh == <<70, 72, 74, 76, 78, 80>>
TdiProfiles == {TdiUp, TdiDown, TdiFlat, TdiSoft, TdiLow, TdiHigh}

\* A trading-timeframe frame is described by: its number of rows n; its
\* last candle; the level r3 of the (flat) candle iloc[-3]; the level early
\* of the candles iloc[-6] and iloc[-5]; the candle far = iloc[-21], the
\* first one outside the window of detect_liquidity_sweep; and the values
\* of the derived columns: bbw on every row, atr on every row, tdi on the
\* last six rows.  Every other candle is flat at Px(0).
Candles(n, last, r3, early, far) ==
    [i \in 1..n |->
        IF i = n THEN last
        ELSE IF i = n - 2 THEN FlatCandle(r3)
        ELSE IF i \in {n - 5, n - 4} THEN FlatCandle(early)
        ELSE IF i = n - LOOKBACK THEN far
        ELSE FlatCandle(Px(0))]

RawFrame(p) == DataFrame(OHLC, Candles(p.n, p.last, p.r3, p.early, p.far))

IndicatorValues(p) ==
    [tdi_slow_ma      |-> [i \in 1..p.n |->
                             IF i > p.n - 6 THEN p.tdi[i - (p.n - 6)] ELSE 50],
     bb_width_percent |-> [i \in 1..p.n |-> p.bbw],
     atr              |-> [i \in 1..p.n |-> p.atr]]

\* r3 below the last candle sets up a BUY, r3 above it a SELL
BaseParams(r3) ==
    [n |-> MIN_ROWS, last |-> BaseLast, r3 |-> r3, early |-> Px(0),
     far |-> FlatCandle(Px(0)), bbw |-> 10, tdi |-> TdiUp, atr |-> 5000]

Setups == {Px(-2), Px(2)}

FrameLens == {0, MIN_ROWS - 1} \cup (MIN_ROWS .. MIN_ROWS + MaxExtraRows)

FrameParams ==
    {[BaseParams(r3) EXCEPT !.last = c] :
        c \in LastCandles, r3 \in Setups \cup {Px(0)}}
    \cup {[BaseParams(r3) EXCEPT !.bbw = w] :
        w \in {2, 3, 30, 31}, r3 \in Setups}
    \cup {[BaseParams(r3) EXCEPT !.tdi = t, !.early = e] :
        t \in TdiProfiles, e \in {Px(-4), Px(0), Px(4)}, r3 \in Setups}
    \cup {[BaseParams(r3) EXCEPT !.atr = a, !.last = c] :
        a \in {0, 5000, 30000},
        c \in {BaseLast, Candle(Px(0), Px(1), Px(0), Px(0)),
               Candle(Px(0), Px(0), Px(-1), Px(0))},
        r3 \in Setups}
    \cup {[BaseParams(r3) EXCEPT !.n = n] : n \in FrameLens, r3 \in Setups}

\* the frames handed to generate_signal: the frames analyze_data returns,
\* a frame that was never analysed (no derived columns), and pd.DataFrame()
\* the calls of analyze_data: the caller's frame before the call, and the
\* caller's frame and the returned frame after it
Analyses ==
    {[arg |-> RawFrame(p),
      res |-> analyze_data(RawFrame(p), IndicatorValues(p))] :
        p \in FrameParams}

SignalFrames ==
    {a.res.returned : a \in Analyses}
    \cup {RawFrame(BaseParams(Px(-2))), EmptyFrame}

\* Higher-timeframe series: flat candles at these closes, 0..MaxHtfLen of
\* them, and pd.DataFrame().
HtfCloses == {5000, 10000, 15000}

RECURSIVE SeqsUpTo(_, _)
SeqsUpTo(S, k) ==
    IF k = 0 THEN {<< >>}
    ELSE LET shorter == SeqsUpTo(S, k - 1)
         IN  shorter \cup {Append(q, x) : q \in shorter, x \in S}

HtfSeries ==
    {DataFrame(OHLC, [i \in 1..Len(q) |-> FlatCandle(q[i])]) :
        q \in SeqsUpTo(HtfCloses, MaxHtfLen)}
    \cup {EmptyFrame}

\* Series handed to detect_liquidity_sweep alone: n candles, flat at Px(0)
\* but for the last one, for far = iloc[-21] and for near = iloc[-20], the
\* first candle of the slice iloc[-20:-1].
SweepCandles(n, last, far, near) ==
    [i \in 1..n |->
        IF i = n THEN last
        ELSE IF i = n - LOOKBACK THEN far
        ELSE IF i = n - LOOKBACK + 1 THEN near
        ELSE FlatCandle(Px(0))]

SweepLens ==
    {0, LOOKBACK + 1} \cup (LOOKBACK + 2 .. LOOKBACK + 2 + MaxSweepExtra)

SweepSeries ==
    {DataFrame(OHLC, SweepCandles(n, last, far, near)) :
        n \in SweepLens, last \in LastCandles,
        far \in {FlatCandle(Px(0)), BaseLast},
        near \in {FlatCandle(Px(0)), BaseLast}}

\* The polling loop: client.price_precisions.keys(), in order
Symbols == <<"BTCUSDT", "ETHUSDT">>

SymbolSet == {Symbols[i] : i \in 1..Len(Symbols)}

\* what the client can return for one symbol in one cycle: the price or
\* None; the 5m frame (a BUY setup, a SELL setup, a frame the volatility
\* gate rejects) or pd.DataFrame(); the 1h frame (rising, falling) or
\* pd.DataFrame()
MainParams ==
    {BaseParams(r3) : r3 \in Setups}
    \cup {[BaseParams(Px(-2)) EXCEPT !.bbw = 31]}

NoIndicators == [tdi_slow_ma |-> << >>, bb_width_percent |-> << >>,
                 atr |-> << >>]

Fetch5m ==
    {[df |-> RawFrame(p), ind |-> IndicatorValues(p)] : p \in MainParams}
    \cup {[df |-> EmptyFrame, ind |-> NoIndicators]}

Fetch1h ==
    {DataFrame(OHLC, <<FlatCandle(5000), FlatCandle(10000)>>),
     DataFrame(OHLC, <<FlatCandle(10000), FlatCandle(5000)>>),
     EmptyFrame}

FetchPrice == {"None", "price"}

(* ------------------------------ the state ------------------------------ *)
VARIABLES
    htf_trend,      \* self.htf_trend of the strategy object
    last_signal,    \* self.last_signal of the strategy object
    op,             \* the operation called last
    arg,            \* the frame handed to it, as it was before the call
    caller_df,      \* the same frame object of the caller after the call
    ret,            \* the value the call returned
    \* main(): the polling loop
    cur,            \* position in client.price_precisions.keys() of the
                    \* symbol the for loop handles next
    clock,          \* UTC time, in minutes since midnight
    session,        \* session, set at the top of each cycle
    last_setups,    \* last_setups: symbol -> setup id, NoSetup when absent
    sent,           \* whether the last iteration sent an alert
    calls,          \* the engine calls of the last iteration, in order
    emitted,        \* per symbol, the direction of the last Signal that
                    \* generate_signal returned for it (history)
    fetched,        \* price, df_5m, df_1h as the client returned them to
                    \* the last iteration
    \* history of one engine under a sequence of calls (AlternationSpec)
    emissions,      \* the directions of the Signals generate_signal has
                    \* returned, oldest first
    intervened      \* whether, since the last of them, the engine has
                    \* returned a NoTrade of a failed filter and has had its
                    \* bias changed

engine_vars == <<htf_trend, last_signal>>

call_vars == <<op, arg, caller_df, ret>>

main_vars == <<cur, clock, session, last_setups, sent, calls, emitted,
               fetched>>

hist_vars == <<emissions, intervened>>

vars == <<engine_vars, call_vars, main_vars, hist_vars>>

self == [htf_trend |-> htf_trend, last_signal |-> last_signal]

\* before the first iteration nothing has been fetched
NothingFetched == [price |-> "None", df_5m |-> EmptyFrame, df_1h |-> EmptyFrame]

\* nothing has happened on the engine since its last Signal
NoneIntervened == [filter |-> FALSE, bias |-> FALSE]

\* a value returned by generate_signal that is a Signal
IsSignal(r) == r.signal \in {"BUY", "SELL"}

\* the value of a call that returns nothing
None == [signal |-> "None"]

\* main(), lines 178-186: the one strategy object, the empty last_setups;
\* the loop starts at 06:59 UTC
Init ==
    /\ htf_trend = NewStrategy.htf_trend
    /\ last_signal = NewStrategy.last_signal
    /\ op = "init"
    /\ arg = EmptyFrame
    /\ caller_df = EmptyFrame
    /\ ret = None
    /\ cur = 1
    /\ clock = 419
    /\ session = get_current_session(419)
    /\ last_setups = [s \in SymbolSet |-> NoSetup]
    /\ sent = FALSE
    /\ calls = << >>
    /\ emitted = [s \in SymbolSet |-> "NO_TRADE"]
    /\ fetched = NothingFetched
    /\ emissions = << >>
    /\ intervened = NoneIntervened

(* -------- the engine driven by any sequence of calls: Spec ------------- *)
SetHtfTrend ==
    \E htf_df \in HtfSeries :
        LET r == set_htf_trend(self, htf_df)
        IN  /\ htf_trend' = r.self.htf_trend
            /\ last_signal' = r.self.last_signal
            /\ op' = "set_htf_trend"
            /\ arg' = htf_df
            /\ caller_df' = r.caller
            /\ ret' = None
            /\ UNCHANGED <<main_vars, hist_vars>>

AnalyzeData ==
    \E a \in Analyses :
        /\ op' = "analyze_data"
        /\ arg' = a.arg
        /\ caller_df' = a.res.caller
        /\ ret' = a.res.returned
        /\ UNCHANGED <<engine_vars, main_vars, hist_vars>>

GenerateSignal ==
    \E df_5m \in SignalFrames :
        LET r == generate_signal(self, df_5m)
        IN  /\ htf_trend' = r.self.htf_trend
            /\ last_signal' = r.self.last_signal
            /\ op' = "generate_signal"
            /\ arg' = df_5m
            /\ caller_df' = df_5m
            /\ ret' = r.ret
            /\ UNCHANGED <<main_vars, hist_vars>>

Next == SetHtfTrend \/ AnalyzeData \/ GenerateSignal

Spec == Init /\ [][Next]_vars

(* ------------------- the polling loop of main(): MainSpec -------------- *)
\* lines 193-195: what the client returned to one iteration
Fetched(price, df_5m, df_1h) ==
    [price |-> price, df_5m |-> df_5m, df_1h |-> df_1h]

\* the clock after a step in which tick minutes may pass
Later(now, tick) == IF now < 419 + MaxTicks THEN now + tick ELSE now

\* the state after an iteration whose result is r
Iterated(symbol, now, got, r) ==
    /\ htf_trend' = r.strategy.htf_trend
    /\ last_signal' = r.strategy.last_signal
    /\ op' = IF r.called THEN "generate_signal" ELSE "skip"
    /\ arg' = r.frame
    /\ caller_df' = r.frame
    /\ ret' = r.decision
    /\ cur' = cur + 1
    /\ clock' = now
    /\ last_setups' = r.setups
    /\ sent' = r.sent
    /\ calls' = r.calls
    /\ emitted' = IF r.called /\ r.decision.signal \in {"BUY", "SELL"}
                    THEN [emitted EXCEPT ![symbol] = r.decision.signal]
                  ELSE emitted
    /\ fetched' = got
    /\ UNCHANGED <<session, hist_vars>>

\* one iteration of the for loop; up to a minute passes while it fetches
ProcessSymbol ==
    /\ cur <= Len(Symbols)
    /\ \E price \in FetchPrice, f5 \in Fetch5m, df_1h \in Fetch1h,
          tick \in 0..1 :
        Iterated(Symbols[cur], Later(clock, tick),
                 Fetched(price, f5.df, df_1h),
                 process_symbol(self, last_setups, Symbols[cur], session,
                                Later(clock, tick),
                                Fetched(price, f5.df, df_1h), f5.ind))

\* the end of the for loop: time.sleep, then the top of the while loop
NextCycle ==
    /\ cur = Len(Symbols) + 1
    /\ \E tick \in 0..1 :
        /\ clock' = Later(clock, tick)
        /\ session' = get_current_session(Later(clock, tick))
    /\ cur' = 1
    /\ UNCHANGED <<engine_vars, call_vars, last_setups, sent, calls, emitted,
                   fetched, hist_vars>>

MainNext == ProcessSymbol \/ NextCycle

MainSpec == Init /\ [][MainNext]_vars

(* --------- detect_liquidity_sweep applied to a series: SweepSpec ------- *)
DetectLiquiditySweep ==
    \E series \in SweepSeries :
        /\ op' = "detect_liquidity_sweep"
        /\ arg' = series
        /\ caller_df' = series
        /\ ret' = detect_liquidity_sweep(series, LOOKBACK)
        /\ UNCHANGED <<engine_vars, main_vars, hist_vars>>

SweepNext == DetectLiquiditySweep

SweepSpec == Init /\ [][SweepNext]_vars

(* --- one engine under set_htf_trend and generate_signal calls only, ---- *)
(* --- with the history of what it emitted: AlternationSpec -------------- *)
\* the frames handed to generate_signal: a BUY setup, a SELL setup, each
\* also with a flat TDI and with a volatility out of the band, and
\* pd.DataFrame()
AltParams ==
    {BaseParams(r3) : r3 \in Setups}
    \cup {[BaseParams(r3) EXCEPT !.tdi = TdiFlat] : r3 \in Setups}
    \cup {[BaseParams(r3) EXCEPT !.bbw = 31] : r3 \in Setups}

AltFrames ==
    {analyze_data(RawFrame(p), IndicatorValues(p)).returned : p \in AltParams}
    \cup {EmptyFrame}

\* set_htf_trend on the engine; a call that changes the bias after a
\* Signal is recorded as an intervening bias change
AltSetHtfTrend ==
    \E htf_df \in Fetch1h :
        LET r == set_htf_trend(self, htf_df)
        IN  /\ htf_trend' = r.self.htf_trend
            /\ last_signal' = r.self.last_signal
            /\ op' = "set_htf_trend"
            /\ arg' = htf_df
            /\ caller_df' = r.caller
            /\ ret' = None
            /\ emissions' = emissions
            /\ intervened' =
                  [intervened EXCEPT !.bias =
                      @ \/ (/\ emissions # << >>
                            /\ r.self.htf_trend # htf_trend)]
            /\ UNCHANGED main_vars

\* generate_signal on the engine; a Signal extends the history, a NoTrade
\* of a failed filter after a Signal is recorded as intervening
AltGenerateSignal ==
    \E df_5m \in AltFrames :
        LET r == generate_signal(self, df_5m)
        IN  /\ IsSignal(r.ret) => Len(emissions) < MaxEmissions
            /\ htf_trend' = r.self.htf_trend
            /\ last_signal' = r.self.last_signal
            /\ op' = "generate_signal"
            /\ arg' = df_5m
            /\ caller_df' = df_5m
            /\ ret' = r.ret
            /\ emissions' = IF IsSignal(r.ret)
                              THEN Append(emissions, r.ret.signal)
                            ELSE emissions
            /\ intervened' =
                  IF IsSignal(r.ret) THEN NoneIntervened
                  ELSE [intervened EXCEPT !.filter =
                           @ \/ (/\ emissions # << >>
                                 /\ r.ret.reason # "Duplicate signal")]
            /\ UNCHANGED main_vars

AltNext == AltSetHtfTrend \/ AltGenerateSignal

AlternationSpec == Init /\ [][AltNext]_vars

(* ------------------------------ the claims ----------------------------- *)
\* the engine as it is before (unprimed) the step
Before == [htf_trend |-> htf_trend, last_signal |-> last_signal]

\* C1: debounce over two consecutive calls.  If a call of generate_signal
\* emitted a Signal of direction D and the next call on the engine is again
\* generate_signal, on a frame that passes every gate before the debounce
\* for the same D, then that call returns NoTrade("Duplicate signal") and
\* last_signal still equals D after it.
C1_DebounceTwoCalls ==
    [][ ( /\ op = "generate_signal" /\ IsSignal(ret)
          /\ op' = "generate_signal"
          /\ candidate(Before, arg').signal = ret.signal )
        => ( /\ ret' = NoTrade("Duplicate signal")
             /\ last_signal' = ret.signal ) ]_vars

\* a qualifying BUY frame was suppressed as a duplicate, and BUY is still
\* remembered
C1_Witness ==
    /\ op = "generate_signal"
    /\ ret = NoTrade("Duplicate signal")
    /\ candidate(self, arg).signal = "BUY"
    /\ last_signal = "BUY"

\* C2: generate_signal changes the engine state only when it returns a
\* Signal.  A call returning NO_TRADE leaves htf_trend and last_signal as
\* they were; a call returning a Signal of direction D sets last_signal to
\* D, leaves htf_trend alone, and had last_signal # D before the call.
C2_StateOnlyOnSignal ==
    [][ op' = "generate_signal"
        => /\ htf_trend' = htf_trend
           /\ ret'.signal = "NO_TRADE" => last_signal' = last_signal
           /\ IsSignal(ret') => /\ last_signal' = ret'.signal
                                /\ last_signal # ret'.signal ]_vars

\* a SELL Signal was emitted under a BEAR bias and is now remembered
C2_Witness ==
    /\ op = "generate_signal"
    /\ ret.signal = "SELL"
    /\ last_signal = "SELL"
    /\ htf_trend = "BEAR"

\* C3: price-level ordering.  An emitted BUY has stop_loss < entry_price <
\* take_profit, an emitted SELL has take_profit < entry_price < stop_loss.
C3_LevelOrdering ==
    op = "generate_signal" =>
        /\ ret.signal = "BUY" =>
              /\ ret.stop_loss < ret.entry_price
              /\ ret.entry_price < ret.take_profit
        /\ ret.signal = "SELL" =>
              /\ ret.take_profit < ret.entry_price
              /\ ret.entry_price < ret.stop_loss

\* a BUY was emitted whose stop is the swept low shifted by the ATR buffer
C3_Witness ==
    /\ op = "generate_signal"
    /\ ret.signal = "BUY"
    /\ ret.atr > 0
    /\ ret.stop_loss < iloc(arg, 1).low

\* C4: risk bound.  Every emitted Signal has a strictly positive risk
\* |entry_price - stop_loss| with MIN_RISK_PCT * entry_price <= risk <=
\* MAX_RISK_PCT * entry_price (the percentages in ten-thousandths).
C4_RiskBound ==
    (op = "generate_signal" /\ IsSignal(ret)) =>
        LET risk == Abs(ret.entry_price - ret.stop_loss)
        IN  /\ risk > 0
            /\ MIN_RISK_PCT * ret.entry_price <= risk * 10000
            /\ risk * 10000 <= MAX_RISK_PCT * ret.entry_price

\* a candidate whose risk is above the band was returned as NO_TRADE
C4_Witness ==
    /\ op = "generate_signal"
    /\ ret = NoTrade("Invalid SELL risk")
    /\ iloc(arg, 1).atr = 30000

\* C6: higher-timeframe alignment.  A call of generate_signal returns BUY
\* only with htf_trend = BULL at the time of the call and SELL only with
\* htf_trend = BEAR; with htf_trend = NEUTRAL it returns NO_TRADE and
\* leaves last_signal unchanged.
C6_HtfAlignment ==
    [][ op' = "generate_signal"
        => /\ ret'.signal = "BUY" => htf_trend = "BULL"
           /\ ret'.signal = "SELL" => htf_trend = "BEAR"
           /\ htf_trend = "NEUTRAL" => /\ ret'.signal = "NO_TRADE"
                                       /\ last_signal' = last_signal ]_vars

\* a BUY sweep was rejected by an engine whose bias is NEUTRAL
C6_Witness ==
    /\ op = "generate_signal"
    /\ htf_trend = "NEUTRAL"
    /\ ret = NoTrade("HTF not BULL")

\* C7: minimum history.  Every frame with fewer than MIN_ROWS rows, the
\* empty one included, is answered NoTrade("Insufficient data") whatever
\* it holds and whatever the engine state, and the state is unchanged.
C7_MinimumHistory ==
    [][ (op' = "generate_signal" /\ len(arg') < MIN_ROWS)
        => /\ ret' = NoTrade("Insufficient data")
           /\ htf_trend' = htf_trend
           /\ last_signal' = last_signal ]_vars

\* a frame one row short, whose last candle sweeps, under a BULL bias
C7_Witness ==
    /\ op = "generate_signal"
    /\ len(arg) = MIN_ROWS - 1
    /\ iloc(arg, 1) \in
          [high : {Px(1)}, open : {Px(0)}, close : {Px(0)}, low : {Px(-1)},
           tdi_slow_ma : {40}, bb_width_percent : {10}, atr : {5000}]
    /\ htf_trend = "BULL"
    /\ ret = NoTrade("Insufficient data")

\* the classification the specification gives for a higher-timeframe
\* series: last close against the last EMA(close, 20) value
HtfClassification(htf_df) ==
    IF len(htf_df) = 0 THEN "NEUTRAL"
    ELSE LET closes == [i \in 1..len(htf_df) |-> htf_df.rows[i].close]
             ema    == ewm_mean(closes, 20)[len(htf_df)]
             close  == closes[len(htf_df)]
         IN  IF close * ema.den > ema.num THEN "BULL"
             ELSE IF close * ema.den < ema.num THEN "BEAR"
             ELSE "NEUTRAL"

\* C8: set_htf_trend is a total classification that overwrites the bias:
\* after the call htf_trend is the classification of the series handed in
\* (whatever the bias was before), and last_signal is unchanged.
C8_HtfClassification ==
    [][ op' = "set_htf_trend"
        => /\ htf_trend' = HtfClassification(arg')
           /\ last_signal' = last_signal ]_vars

\* the empty series reset the bias of an engine that has emitted a Signal
C8_Witness ==
    /\ op = "set_htf_trend"
    /\ len(arg) = 0
    /\ htf_trend = "NEUTRAL"
    /\ last_signal = "BUY"

\* the predicate the specification gives for a liquidity sweep: prevHigh and
\* prevLow over the lookback candles immediately preceding the last one
ReferenceSweep(df, lookback) ==
    LET n == len(df) IN
    IF n < lookback + 2 THEN "NONE"
    ELSE
      LET prev     == SubSeq(df.rows, n - lookback, n - 1)
          last     == df.rows[n]
          prevHigh == ColMax(prev, "high")
          prevLow  == ColMin(prev, "low")
          bodyHigh == Max2(last.open, last.close)
          bodyLow  == Min2(last.open, last.close)
      IN  IF last.high > prevHigh /\ bodyHigh <= prevHigh THEN "BUY"
          ELSE IF last.low < prevLow /\ bodyLow >= prevLow THEN "SELL"
          ELSE "NONE"

\* C9: detect_liquidity_sweep(series, lookback = 20) returns the direction
\* of the reference predicate, whose prevHigh / prevLow are taken over the
\* 20 candles immediately preceding the last one: BUY first, else SELL,
\* else absent, and absent below lookback + 2 candles.
C9_SweepIsReference ==
    op = "detect_liquidity_sweep" =>
        ret.direction = ReferenceSweep(arg, LOOKBACK)

\* C10: copy semantics.  After analyze_data on the trading-timeframe series
\* and after set_htf_trend on the higher-timeframe series, the caller's
\* series has the columns and values it had before the call.
C10_CallerFrameUntouched ==
    op \in {"analyze_data", "set_htf_trend"} => caller_df = arg

\* C5: engine state is partitioned per symbol.  When an iteration of the
\* polling loop for symbol S calls generate_signal on a frame that passes
\* every gate before the debounce for direction D, the call is suppressed
\* as "Duplicate signal" exactly when the last Signal emitted for S had
\* direction D; Signals emitted for other symbols play no part.
C5_DebouncePerSymbol ==
    [][ ( /\ cur' = cur + 1
          /\ op' = "generate_signal"
          /\ IsSignal(candidate([htf_trend |-> htf_trend',
                                 last_signal |-> last_signal], arg')) )
        => ( ret' = NoTrade("Duplicate signal")
             <=> emitted[Symbols[cur]] =
                    candidate([htf_trend |-> htf_trend',
                               last_signal |-> last_signal], arg').signal )
      ]_vars

\* the calls of an iteration that read or write the engine state
StateCalls == {"set_htf_trend", "generate_signal"}

\* C11: bias freshness in the polling loop.  In every iteration of the for
\* loop, each call of generate_signal is preceded in the same iteration by a
\* call of set_htf_trend on the 1h series fetched for the same symbol, with
\* no other set_htf_trend or generate_signal call between the two; the
\* decision is the one generate_signal gives under the bias of that series;
\* and when either series is empty or the price is missing the iteration
\* makes no engine call and leaves the engine state as it was.
C11_BiasFreshness ==
    [][ cur' = cur + 1 =>
          /\ \A i \in 1..Len(calls') :
                calls'[i].op = "generate_signal" =>
                  /\ calls'[i].symbol = Symbols[cur]
                  /\ \E j \in 1..(i - 1) :
                        /\ calls'[j] = EngineCall("set_htf_trend",
                                                  Symbols[cur], fetched'.df_1h)
                        /\ \A k \in (j + 1)..(i - 1) :
                              calls'[k].op \notin StateCalls
          /\ op' = "generate_signal" =>
                /\ \E i \in 1..Len(calls') : calls'[i].op = "generate_signal"
                /\ htf_trend' = HtfClassification(fetched'.df_1h)
                /\ ret' = generate_signal(
                             [htf_trend   |-> HtfClassification(fetched'.df_1h),
                              last_signal |-> last_signal], arg').ret
          /\ skipped(fetched') =>
                /\ calls' = << >>
                /\ op' = "skip"
                /\ htf_trend' = htf_trend
                /\ last_signal' = last_signal
      ]_vars

\* ETHUSDT was evaluated under the falling 1h series fetched for it, in a
\* loop whose strategy object had been left BULL by BTCUSDT
C11_Witness ==
    /\ cur = 3
    /\ op = "generate_signal"
    /\ Len(calls) = 3
    /\ calls[1] = EngineCall("set_htf_trend", "ETHUSDT", fetched.df_1h)
    /\ htf_trend = "BEAR"
    /\ ret.signal = "SELL"
    /\ emitted["BTCUSDT"] = "BUY"

\* The eleven gates in the order the specification gives them, each as a
\* predicate of its own on the engine state and the frame: 1 minimum
\* history, 2 BB-width band, 3 liquidity sweep present, 4 HTF alignment,
\* 5 TDI zone, 6 TDI slope magnitude, 7 TDI divergence, 8 market-structure
\* shift, 9 fair-value gap, 10 risk bound, 11 debounce.  Gates 2..11 read
\* the last candle and gates 4..11 the sweep direction, so gate g is only
\* evaluated on frames that pass the gates it depends on.
GatePasses(g, engine, df) ==
    LET last      == iloc(df, 1)
        sweep     == detect_liquidity_sweep(df, LOOKBACK)
        direction == sweep.direction
        atr       == Get(last, "atr", last.close \div 1000)
        buffer    == (atr * ATR_SL_MULTIPLIER) \div 10
        stop      == IF direction = "BUY" THEN sweep.sweep_level - buffer
                     ELSE sweep.sweep_level + buffer
        risk      == Abs(last.close - stop)
    IN  CASE g = 1  -> len(df) >= MIN_ROWS
          [] g = 2  -> /\ MIN_BB_WIDTH <= Get(last, "bb_width_percent", 0)
                       /\ Get(last, "bb_width_percent", 0) <= MAX_BB_WIDTH
          [] g = 3  -> direction \in {"BUY", "SELL"}
          [] g = 4  -> \/ direction = "BUY" /\ engine.htf_trend = "BULL"
                       \/ direction = "SELL" /\ engine.htf_trend = "BEAR"
          [] g = 5  -> IF direction = "BUY"
                         THEN Get(last, "tdi_slow_ma", 0) >= MIN_TDI_BUY
                       ELSE Get(last, "tdi_slow_ma", 0) <= MAX_TDI_SELL
          [] g = 6  -> Abs(_tdi_slope(df)) >= MIN_TDI_SLOPE
          [] g = 7  -> ~ _tdi_divergence(df, direction)
          [] g = 8  -> detect_market_structure_shift(df, direction)
          [] g = 9  -> detect_fvg(df, direction)
          [] g = 10 -> /\ last.close * MIN_RISK_PCT <= risk * 10000
                       /\ risk * 10000 <= last.close * MAX_RISK_PCT
          [] g = 11 -> engine.last_signal # direction

\* the reason each gate reports when it fails
GateReason(g, df) ==
    LET direction == detect_liquidity_sweep(df, LOOKBACK).direction
    IN  CASE g = 1  -> "Insufficient data"
          [] g = 2  -> "BB width filter"
          [] g = 3  -> "No liquidity sweep"
          [] g = 4  -> IF direction = "BUY" THEN "HTF not BULL"
                       ELSE "HTF not BEAR"
          [] g = 5  -> "Weak TDI zone"
          [] g = 6  -> "Flat TDI"
          [] g = 7  -> "TDI divergence"
          [] g = 8  -> "No MSS"
          [] g = 9  -> "No FVG"
          [] g = 10 -> IF direction = "BUY" THEN "Invalid BUY risk"
                       ELSE "Invalid SELL risk"
          [] g = 11 -> "Duplicate signal"

\* the first gate from g on, in the order above, that the frame fails; 0
\* when it passes them all
RECURSIVE FirstFailing(_, _, _)
FirstFailing(g, engine, df) ==
    IF g > 11 THEN 0
    ELSE IF ~ GatePasses(g, engine, df) THEN g
    ELSE FirstFailing(g + 1, engine, df)

\* C12: generate_signal is an ordered short-circuit pipeline.  The value
\* returned is the NoTrade of the first gate, in the order minimum history,
\* BB width, sweep, HTF alignment, TDI zone, TDI slope, TDI divergence, MSS,
\* FVG, risk bound, debounce, that the frame fails, and a Signal (in the
\* direction of the sweep) only if it passes all eleven; so "Duplicate
\* signal" is returned only to a frame that passed the ten gates before it.
C12_OrderedPipeline ==
    [][ op' = "generate_signal" =>
          LET failing == FirstFailing(1, Before, arg')
          IN  /\ failing = 0 =>
                    /\ IsSignal(ret')
                    /\ ret'.signal =
                          detect_liquidity_sweep(arg', LOOKBACK).direction
              /\ failing # 0 => ret' = NoTrade(GateReason(failing, arg'))
              /\ ret' = NoTrade("Duplicate signal") => failing = 11
      ]_vars

\* a BUY sweep on an engine that remembers BUY, rejected by the TDI zone
\* gate: the reason is that gate's, not the debounce's
C12_Witness ==
    /\ op = "generate_signal"
    /\ last_signal = "BUY"
    /\ htf_trend = "BULL"
    /\ detect_liquidity_sweep(arg, LOOKBACK).direction = "BUY"
    /\ ret = NoTrade("Weak TDI zone")

\* C13: price-level derivation.  An emitted Signal has entry_price = the
\* last candle's close; with buffer = atr * ATR_SL_MULTIPLIER (the
\* multiplier in tenths), a BUY has stop_loss = sweep_level - buffer and
\* take_profit = entry + (entry - stop_loss) * 2, a SELL has stop_loss =
\* sweep_level + buffer and take_profit = entry - (stop_loss - entry) * 2;
\* risk_factor is 2 and |take_profit - entry_price| is exactly risk_factor
\* times |entry_price - stop_loss|.
C13_PriceLevels ==
    (op = "generate_signal" /\ IsSignal(ret)) =>
        LET last  == iloc(arg, 1)
            sweep == detect_liquidity_sweep(arg, LOOKBACK)
            entry == ret.entry_price
        IN  /\ entry = last.close
            /\ ret.atr = last.atr
            /\ ret.signal = sweep.direction
            /\ ret.signal = "BUY" =>
                  /\ 10 * ret.stop_loss =
                        10 * sweep.sweep_level - ret.atr * ATR_SL_MULTIPLIER
                  /\ ret.take_profit = entry + (entry - ret.stop_loss) * 2
            /\ ret.signal = "SELL" =>
                  /\ 10 * ret.stop_loss =
                        10 * sweep.sweep_level + ret.atr * ATR_SL_MULTIPLIER
                  /\ ret.take_profit = entry - (ret.stop_loss - entry) * 2
            /\ ret.risk_factor = 2
            /\ Abs(ret.take_profit - entry) =
                  ret.risk_factor * Abs(entry - ret.stop_loss)

\* a SELL was emitted whose stop is the swept high plus the ATR buffer and
\* whose target lies two risks below the entry
C13_Witness ==
    /\ op = "generate_signal"
    /\ ret.signal = "SELL"
    /\ ret.atr > 0
    /\ ret.stop_loss > iloc(arg, 1).high
    /\ ret.take_profit < ret.entry_price

\* C14: the Signals one engine emits strictly alternate in direction.
\* Over any sequence of set_htf_trend and generate_signal calls: no two
\* consecutive Signals have the same direction; once a Signal of direction
\* D has been emitted last_signal is never NO_TRADE again; and as long as D
\* is the direction of the last Signal, every generate_signal call on a
\* frame that passes every gate before the debounce for D returns
\* "Duplicate signal" and emits nothing, whatever NoTrade outcomes and
\* bias changes came in between.
C14_StrictAlternation ==
    [][ /\ \A i \in 1..(Len(emissions') - 1) :
              emissions'[i] # emissions'[i + 1]
        /\ emissions # << >> =>
              /\ last_signal' # "NO_TRADE"
              /\ ( /\ op' = "generate_signal"
                    /\ candidate(Before, arg').signal
                          = emissions[Len(emissions)] )
                  => /\ ret' = NoTrade("Duplicate signal")
                     /\ emissions' = emissions
      ]_vars

\* after BUY, SELL, BUY were emitted, a failed filter and a change of bias
\* came in between, and a frame qualifying for BUY was still suppressed
C14_Witness ==
    /\ emissions = <<"BUY", "SELL", "BUY">>
    /\ intervened.filter
    /\ intervened.bias
    /\ op = "generate_signal"
    /\ candidate(self, arg).signal = "BUY"
    /\ ret = NoTrade("Duplicate signal")
====
